---------------------------- MODULE Spec2Model ----------------------------
(***************************************************************************)
(* Model of official/nlp/bert/tf1_to_keras_checkpoint_converter.py.        *)
(*                                                                         *)
(* Variable names are TLA+ strings and are handled character by character  *)
(* (Len, SubSeq and \o on strings), so that Python's `in` and str.replace  *)
(* are modelled by what they do.  A tensor is [src, shape]: the name it    *)
(* was read under (which stands for its data) and its current shape.       *)
(***************************************************************************)
EXTENDS Integers, Sequences, FiniteSets, TLC

(***************************************************************************)
(* Bounds.                                                                 *)
(***************************************************************************)
\* largest number of variables in a source checkpoint
MaxVars == 3

(***************************************************************************)
(* Python string primitives.                                               *)
(***************************************************************************)
\* s[i : i + len(p)] == p
MatchAt(s, p, i) ==
  /\ i + Len(p) - 1 <= Len(s)
  /\ SubSeq(s, i, i + Len(p) - 1) = p

\* p in s
Contains(s, p) == \E i \in 1..(Len(s) - Len(p) + 1) : MatchAt(s, p, i)

RECURSIVE ReplaceFrom(_, _, _, _)
\* s[i:].replace(old, new) for a non-empty old: leftmost, non-overlapping
\* occurrences, the replacement text is not scanned again
ReplaceFrom(s, old, new, i) ==
  IF i > Len(s) THEN ""
  ELSE IF MatchAt(s, old, i)
       THEN new \o ReplaceFrom(s, old, new, i + Len(old))
       ELSE SubSeq(s, i, i) \o ReplaceFrom(s, old, new, i + 1)

\* s.replace(old, new)
StrReplace(s, old, new) == ReplaceFrom(s, old, new, 1)

RECURSIVE SplitFrom(_, _, _)
\* s[i:].split(","), where the current field started at position start
SplitFrom(s, start, i) ==
  IF i > Len(s) THEN << SubSeq(s, start, Len(s)) >>
  ELSE IF SubSeq(s, i, i) = ","
       THEN << SubSeq(s, start, i - 1) >> \o SplitFrom(s, i + 1, i + 1)
       ELSE SplitFrom(s, start, i + 1)

\* s.split(",")
StrSplit(s) == SplitFrom(s, 1, 1)

(***************************************************************************)
(* The two rule tables.                                                    *)
(***************************************************************************)
BERT_NAME_REPLACEMENTS ==
  << << "bert", "bert_model" >>,
     << "embeddings/word_embeddings", "word_embeddings/embeddings" >>,
     << "embeddings/token_type_embeddings",
        "embedding_postprocessor/type_embeddings" >>,
     << "embeddings/position_embeddings",
        "embedding_postprocessor/position_embeddings" >>,
     << "embeddings/LayerNorm", "embedding_postprocessor/layer_norm" >>,
     << "attention/self", "self_attention" >>,
     << "attention/output/dense", "self_attention_output" >>,
     << "attention/output/LayerNorm", "self_attention_layer_norm" >>,
     << "intermediate/dense", "intermediate" >>,
     << "output/dense", "output" >>,
     << "output/LayerNorm", "output_layer_norm" >>,
     << "pooler/dense", "pooler_transform" >> >>

BERT_V2_NAME_REPLACEMENTS ==
  << << "bert/", "" >>,
     << "encoder", "transformer" >>,
     << "embeddings/word_embeddings", "word_embeddings/embeddings" >>,
     << "embeddings/token_type_embeddings", "type_embeddings/embeddings" >>,
     << "embeddings/position_embeddings", "position_embedding/embeddings" >>,
     << "embeddings/LayerNorm", "embeddings/layer_norm" >>,
     << "attention/self", "self_attention" >>,
     << "attention/output/dense", "self_attention_output" >>,
     << "attention/output/LayerNorm", "self_attention_layer_norm" >>,
     << "intermediate/dense", "intermediate" >>,
     << "output/dense", "output" >>,
     << "output/LayerNorm", "output_layer_norm" >>,
     << "pooler/dense", "pooler_transform" >> >>

\* the table FLAGS.use_v2_names selects
NameReplacements(v2) ==
  IF v2 THEN BERT_V2_NAME_REPLACEMENTS ELSE BERT_NAME_REPLACEMENTS

RECURSIVE ApplyRules(_, _, _)
\* variant: returns from inside the loop at the first rule that matches
ApplyRules_FirstMatchOnly(var_name, rules, k) ==
  IF k > Len(rules) THEN var_name
  ELSE IF Contains(var_name, rules[k][1])
       THEN StrReplace(var_name, rules[k][1], rules[k][2])
       ELSE ApplyRules(var_name, rules, k + 1)

\* the for loop of _bert_name_replacement from rule k on
ApplyRules(var_name, rules, k) ==
  IF k > Len(rules) THEN var_name
  ELSE IF Contains(var_name, rules[k][1])
       THEN ApplyRules(StrReplace(var_name, rules[k][1], rules[k][2]),
                       rules, k + 1)
       ELSE ApplyRules(var_name, rules, k + 1)

_bert_name_replacement(var_name, v2) ==
  ApplyRules(var_name, NameReplacements(v2), 1)

(***************************************************************************)
(* Python values: None, truthiness, exceptions, floor division.            *)
(***************************************************************************)
PyNone == [kind |-> "None"]
PyVal(v) == [kind |-> "value", val |-> v]
PyRaise(e) == [kind |-> "raise", exc |-> e]

\* bool(o) for o None, a str, a list or a tuple
Truthy(o) == o.kind = "value" /\ Len(o.val) > 0

\* a // b for a >= 0 and b # 0 (floor of the quotient)
FloorDiv(a, b) ==
  IF b > 0 THEN a \div b ELSE 0 - ((a + (0 - b) - 1) \div (0 - b))

RECURSIVE Prod(_)
\* number of elements of an array of the given shape
Prod(shape) == IF Len(shape) = 0 THEN 1 ELSE Head(shape) * Prod(Tail(shape))

(***************************************************************************)
(* Exclusion Filter.                                                       *)
(***************************************************************************)
\* variant: every pattern has to occur in the name
_has_exclude_patterns_All(name, exclude_patterns) ==
  \A k \in 1..Len(exclude_patterns) : Contains(name, exclude_patterns[k])

_has_exclude_patterns(name, exclude_patterns) ==
  \E k \in 1..Len(exclude_patterns) : Contains(name, exclude_patterns[k])

(***************************************************************************)
(* Shape Transformer.                                                      *)
(***************************************************************************)
patterns ==
  << "attention/self/query", "attention/self/value", "attention/self/key" >>

RECURSIVE PatternLoop(_, _, _, _)
\* the for loop over patterns from pattern k on
PatternLoop(name, shape, num_heads, k) ==
  IF k > Len(patterns) THEN PyNone
  ELSE IF Contains(name, patterns[k])
       THEN IF Contains(name, "kernel")
            THEN IF Len(shape) < 2 THEN PyRaise("IndexError")
                 ELSE IF num_heads = 0 THEN PyRaise("ZeroDivisionError")
                 ELSE PyVal(<< shape[1], num_heads,
                               FloorDiv(shape[2], num_heads) >>)
            ELSE IF Contains(name, "bias")
            THEN IF Len(shape) < 1 THEN PyRaise("IndexError")
                 ELSE IF num_heads = 0 THEN PyRaise("ZeroDivisionError")
                 ELSE PyVal(<< num_heads, FloorDiv(shape[1], num_heads) >>)
            ELSE PatternLoop(name, shape, num_heads, k + 1)
       ELSE PatternLoop(name, shape, num_heads, k + 1)

\* variant: the attention-output kernel keeps its undivided row count
_get_new_shape_NoDivide(name, shape, num_heads) ==
  IF Contains(name, "attention/output/dense/kernel")
  THEN IF Len(shape) < 2 THEN PyRaise("IndexError")
       ELSE PyVal(<< num_heads, shape[1], shape[2] >>)
  ELSE IF Contains(name, "attention/output/dense/bias")
  THEN PyVal(shape)
  ELSE PatternLoop(name, shape, num_heads, 1)

\* shape is 1-indexed here: shape[1] is Python's shape[0]
_get_new_shape(name, shape, num_heads) ==
  IF Contains(name, "attention/output/dense/kernel")
  THEN IF Len(shape) < 1 THEN PyRaise("IndexError")
       ELSE IF num_heads = 0 THEN PyRaise("ZeroDivisionError")
       ELSE IF Len(shape) < 2 THEN PyRaise("IndexError")
       ELSE PyVal(<< num_heads, FloorDiv(shape[1], num_heads), shape[2] >>)
  ELSE IF Contains(name, "attention/output/dense/bias")
  THEN PyVal(shape)
  ELSE PatternLoop(name, shape, num_heads, 1)

\* variant: the element count is not checked
np_reshape_Unchecked(tensor, new_shape) ==
  PyVal([src |-> tensor.src, shape |-> new_shape])

\* np.reshape(tensor, new_shape): the same data under the new shape, or
\* ValueError when the new shape does not hold exactly the tensor's elements
np_reshape(tensor, new_shape) ==
  IF (\A k \in 1..Len(new_shape) : new_shape[k] >= 0)
     /\ Prod(new_shape) = Prod(tensor.shape)
  THEN PyVal([src |-> tensor.src, shape |-> new_shape])
  ELSE PyRaise("ValueError")

(***************************************************************************)
(* Inputs: flag values and source checkpoints.                             *)
(***************************************************************************)
\* values of --exclude_patterns (None when the flag is not given)
ExcludeFlagValues ==
  { PyNone, PyVal(""), PyVal("adam,pooler") }

\* exclude_patterns of a caller that calls convert_names itself with a list
CallerExcludePatterns == { PyVal(<< >>), PyVal(<< "pooler" >>) }

\* values of --num_heads (-1 is the default)
NumHeadsValues == { -1, 0, 2, 12 }

\* variable names a source checkpoint may hold, each with its possible shapes
VarPool ==
  [ n \in { "bert/embeddings/word_embeddings",
            "bert/encoder/layer_0/attention/self/query/kernel",
            "bert/encoder/layer_0/attention/self/query/bias",
            "bert/encoder/layer_0/attention/self/value/kernel/adam_m",
            "bert/encoder/layer_0/attention/output/dense/kernel",
            "bert/encoder/layer_0/attention/output/dense/bias",
            "bert/pooler/dense/kernel",
            "bert/bert/pooler/dense/kernel",
            "pooler_transform/kernel",
            "bert_model/pooler_transform/kernel" } |->
      CASE n = "bert/embeddings/word_embeddings" -> { << 6, 4 >> }
        [] n = "bert/encoder/layer_0/attention/self/query/kernel" ->
             { << 768, 768 >>, << 4, 6 >> }
        [] n = "bert/encoder/layer_0/attention/self/query/bias" ->
             { << 768 >>, << 6 >> }
        [] n = "bert/encoder/layer_0/attention/self/value/kernel/adam_m" ->
             { << 4, 6 >> }
        [] n = "bert/encoder/layer_0/attention/output/dense/kernel" ->
             { << 768, 768 >>, << 6, 4 >> }
        [] n = "bert/encoder/layer_0/attention/output/dense/bias" ->
             { << 768 >> }
        [] OTHER -> { << 4, 4 >> } ]

VarNames == DOMAIN VarPool

\* the shapes of the pool
Shapes == UNION { VarPool[n] : n \in VarNames }

\* reader.get_variable_to_shape_map() of the possible source checkpoints
Checkpoints ==
  UNION { { f \in [S -> Shapes] : \A n \in S : f[n] \in VarPool[n] } :
          S \in { T \in SUBSET VarNames :
                    Cardinality(T) >= 1 /\ Cardinality(T) <= MaxVars } }

(***************************************************************************)
(* The three pure functions are evaluated once on every argument the model *)
(* can hand them and looked up in the actions.                             *)
(***************************************************************************)
\* exclude_patterns as main hands it to convert_names
MainExcludePatterns(flag) ==
  IF Truthy(flag) THEN PyVal(StrSplit(flag.val)) ELSE PyNone

\* the test that skips a variable
Excluded(var_name, excl) ==
  Truthy(excl) /\ _has_exclude_patterns(var_name, excl.val)

\* the values exclude_patterns can have in convert_names
ExcludePatternsValues ==
  { MainExcludePatterns(f) : f \in ExcludeFlagValues }
    \cup CallerExcludePatterns

ExcludedTable ==
  [ excl \in ExcludePatternsValues |->
      [ n \in VarNames |-> Excluded(n, excl) ] ]

NewNameTable ==
  [ v2 \in BOOLEAN |->
      [ n \in VarNames |-> _bert_name_replacement(n, v2) ] ]

NewShapeTable ==
  [ n \in VarNames \cup { NewNameTable[v2][m] : v2 \in BOOLEAN, m \in VarNames }
      |-> [ sh \in Shapes |->
              [ h \in NumHeadsValues |-> _get_new_shape(n, sh, h) ] ] ]

(***************************************************************************)
(* State.                                                                  *)
(***************************************************************************)
VARIABLES
  FLAGS,             \* exclude_patterns, num_heads, use_v2_names
  name_shape_map,    \* the source checkpoint: name -> shape
  pc,                \* "main", "loop", "done" or "raised"
  exclude_patterns,  \* argument of convert_names: None or a list
  todo,              \* names the for loop has not enumerated yet
  order,             \* names in the order the for loop enumerated them
  new_variable_map,  \* new name -> tensor
  conversion_map,    \* old name -> new name
  reads,             \* names passed to reader.get_tensor
  shape_calls,       \* calls of _get_new_shape, with their results
  reshape_calls,     \* names logged as shape change and handed to np.reshape
  puts,              \* << new name, old name >> of every store into the map
  dest,              \* the destination checkpoint: None or name -> tensor
  save_count,        \* number of saver.save calls
  summary,           \* None or the logged summary
  exc                \* the exception that ended the run, "" if none

vars == << FLAGS, name_shape_map, pc, exclude_patterns, todo, order,
           new_variable_map, conversion_map, reads, shape_calls,
           reshape_calls, puts, dest, save_count, summary, exc >>

Init ==
  /\ FLAGS \in [ exclude_patterns : ExcludeFlagValues,
                 num_heads : NumHeadsValues,
                 use_v2_names : BOOLEAN ]
  /\ name_shape_map \in Checkpoints
  /\ pc = "main"
  /\ exclude_patterns = PyNone
  /\ todo = {}
  /\ order = << >>
  /\ new_variable_map = << >>
  /\ conversion_map = << >>
  /\ reads = {}
  /\ shape_calls = {}
  /\ reshape_calls = {}
  /\ puts = {}
  /\ dest = PyNone
  /\ save_count = 0
  /\ summary = PyNone
  /\ exc = ""

(***************************************************************************)
(* Entry: main splits the exclusion flag and calls convert_names, which     *)
(* opens the reader and enters the loop.                                   *)
(***************************************************************************)
Main ==
  /\ pc = "main"
  /\ exclude_patterns' = MainExcludePatterns(FLAGS.exclude_patterns)
  /\ todo' = DOMAIN name_shape_map
  /\ pc' = "loop"
  /\ UNCHANGED << FLAGS, name_shape_map, order, new_variable_map,
                  conversion_map, reads, shape_calls, reshape_calls, puts,
                  dest, save_count, summary, exc >>

\* convert_names called with a list of patterns, the flag left unset
Call ==
  /\ pc = "main"
  /\ FLAGS.exclude_patterns = PyNone
  /\ exclude_patterns' \in CallerExcludePatterns
  /\ todo' = DOMAIN name_shape_map
  /\ pc' = "loop"
  /\ UNCHANGED << FLAGS, name_shape_map, order, new_variable_map,
                  conversion_map, reads, shape_calls, reshape_calls, puts,
                  dest, save_count, summary, exc >>

(***************************************************************************)
(* One iteration of the for loop of convert_names.                         *)
(***************************************************************************)
\* reader.get_tensor(var_name)
get_tensor(var_name) == [src |-> var_name, shape |-> name_shape_map[var_name]]

\* variant: only the default -1 disables reshaping
ReshapeEnabled_NotDefault(num_heads) == num_heads # -1

\* if FLAGS.num_heads > 0
ReshapeEnabled(num_heads) == num_heads > 0

\* variant: the rewritten name is matched against the shape rules
ShapeName_Rewritten(var_name, new_var_name) == new_var_name

\* the name _get_new_shape is asked about
ShapeName(var_name, new_var_name) == var_name

\* if new_shape:
NeedsReshape(new_shape) == Truthy(new_shape)

\* variant: the tensor is stored under the old name
StoreVar_OldName(map, var_name, new_var_name, var) ==
  [ k \in DOMAIN map \cup { var_name } |->
      IF k = var_name THEN var ELSE map[k] ]

\* variant: an existing entry is kept (setdefault)
StoreVar_KeepFirst(map, var_name, new_var_name, var) ==
  [ k \in DOMAIN map \cup { new_var_name } |->
      IF k \in DOMAIN map THEN map[k] ELSE var ]

\* new_variable_map[new_var_name] = var
StoreVar(map, var_name, new_var_name, var) ==
  [ k \in DOMAIN map \cup { new_var_name } |->
      IF k = new_var_name THEN var ELSE map[k] ]

\* variant: a rename is recorded only for a new name not stored before
RecordConversion_FirstOnly(cmap, vmap, var_name, new_var_name) ==
  IF new_var_name # var_name /\ new_var_name \notin DOMAIN vmap
  THEN [ k \in DOMAIN cmap \cup { var_name } |->
           IF k = var_name THEN new_var_name ELSE cmap[k] ]
  ELSE cmap

\* if new_var_name != var_name: conversion_map[var_name] = new_var_name
RecordConversion(cmap, vmap, var_name, new_var_name) ==
  IF new_var_name # var_name
  THEN [ k \in DOMAIN cmap \cup { var_name } |->
           IF k = var_name THEN new_var_name ELSE cmap[k] ]
  ELSE cmap

\* new_var_name = _bert_name_replacement(var_name)
NewName(var_name) == NewNameTable[FLAGS.use_v2_names][var_name]

\* new_shape after the two assignments to it
NewShape(var_name) ==
  IF ReshapeEnabled(FLAGS.num_heads)
  THEN NewShapeTable[ShapeName(var_name, NewName(var_name))]
                    [name_shape_map[var_name]][FLAGS.num_heads]
  ELSE PyNone

\* the record of the call of _get_new_shape, if it is made
ShapeCall(var_name) ==
  IF ReshapeEnabled(FLAGS.num_heads)
  THEN { [ name |-> ShapeName(var_name, NewName(var_name)),
           shape |-> name_shape_map[var_name],
           num_heads |-> FLAGS.num_heads,
           result |-> NewShape(var_name) ] }
  ELSE {}

\* np.reshape is reached
Reshaping(var_name) ==
  NewShape(var_name).kind # "raise" /\ NeedsReshape(NewShape(var_name))

\* the tensor after the optional np.reshape, or the exception raised
Tensor(var_name) ==
  IF NewShape(var_name).kind = "raise" THEN NewShape(var_name)
  ELSE IF Reshaping(var_name)
       THEN np_reshape(get_tensor(var_name), NewShape(var_name).val)
       ELSE PyVal(get_tensor(var_name))

\* the iteration hits `continue`
Skip ==
  \E var_name \in todo :
    /\ pc = "loop"
    /\ ExcludedTable[exclude_patterns][var_name]
    /\ todo' = todo \ { var_name }
    /\ order' = Append(order, var_name)
    /\ UNCHANGED << FLAGS, name_shape_map, pc, exclude_patterns,
                    new_variable_map, conversion_map, reads, shape_calls,
                    reshape_calls, puts, dest, save_count, summary, exc >>

\* the iteration runs to its end
Convert ==
  \E var_name \in todo :
    /\ pc = "loop"
    /\ ~ExcludedTable[exclude_patterns][var_name]
    /\ Tensor(var_name).kind = "value"
    /\ reads' = reads \cup { var_name }
    /\ shape_calls' = shape_calls \cup ShapeCall(var_name)
    /\ reshape_calls' =
         reshape_calls \cup (IF Reshaping(var_name) THEN { var_name } ELSE {})
    /\ new_variable_map' =
         StoreVar(new_variable_map, var_name, NewName(var_name),
                  Tensor(var_name).val)
    /\ puts' = puts \cup
         { << k, var_name >> :
             k \in DOMAIN StoreVar(<< >>, var_name, NewName(var_name),
                                   Tensor(var_name).val) }
    /\ conversion_map' =
         RecordConversion(conversion_map, new_variable_map,
                          var_name, NewName(var_name))
    /\ todo' = todo \ { var_name }
    /\ order' = Append(order, var_name)
    /\ UNCHANGED << FLAGS, name_shape_map, pc, exclude_patterns, dest,
                    save_count, summary, exc >>

\* the iteration raises in _get_new_shape or in np.reshape: the run ends
ConvertRaises ==
  \E var_name \in todo :
    /\ pc = "loop"
    /\ ~ExcludedTable[exclude_patterns][var_name]
    /\ Tensor(var_name).kind = "raise"
    /\ reads' = reads \cup { var_name }
    /\ shape_calls' = shape_calls \cup ShapeCall(var_name)
    /\ reshape_calls' =
         reshape_calls \cup (IF Reshaping(var_name) THEN { var_name } ELSE {})
    /\ exc' = Tensor(var_name).exc
    /\ todo' = todo \ { var_name }
    /\ order' = Append(order, var_name)
    /\ pc' = "raised"
    /\ UNCHANGED << FLAGS, name_shape_map, exclude_patterns, new_variable_map,
                    conversion_map, puts, dest, save_count, summary >>

(***************************************************************************)
(* After the loop: build the saver, save, log the summary.                 *)
(***************************************************************************)
\* tf.train.Saver(new_variable_map) refuses an empty variable map
SaverRaises ==
  /\ pc = "loop"
  /\ todo = {}
  /\ DOMAIN new_variable_map = {}
  /\ pc' = "raised"
  /\ exc' = "ValueError"
  /\ UNCHANGED << FLAGS, name_shape_map, exclude_patterns, todo, order,
                  new_variable_map, conversion_map, reads, shape_calls,
                  reshape_calls, puts, dest, save_count, summary >>

\* saver.save(sess, checkpoint_to_path) and the summary
SaveAndSummarize ==
  /\ pc = "loop"
  /\ todo = {}
  /\ DOMAIN new_variable_map # {}
  /\ dest' = PyVal(new_variable_map)
  /\ save_count' = save_count + 1
  /\ summary' = PyVal([ count |-> Cardinality(DOMAIN new_variable_map),
                        converted |-> conversion_map ])
  /\ pc' = "done"
  /\ UNCHANGED << FLAGS, name_shape_map, exclude_patterns, todo, order,
                  new_variable_map, conversion_map, reads, shape_calls,
                  reshape_calls, puts, exc >>

Next ==
  \/ Main
  \/ Call
  \/ Skip
  \/ Convert
  \/ ConvertRaises
  \/ SaverRaises
  \/ SaveAndSummarize

Spec == Init /\ [][Next]_vars

(***************************************************************************)
(* Vocabulary of the properties, written from their statements with the    *)
(* string primitives only and evaluated once per name.                     *)
(***************************************************************************)
\* every name the shape rules can be asked about
AllNames ==
  VarNames \cup { NewNameTable[v2][m] : v2 \in BOOLEAN, m \in VarNames }

\* the name contains one of the patterns of the list as a substring
ContainsOneOf ==
  [ excl \in ExcludePatternsValues |->
      [ n \in VarNames |->
          /\ excl.kind = "value"
          /\ \E k \in 1..Len(excl.val) : Contains(n, excl.val[k]) ] ]

\* the variable is one the exclusion list drops
IsExcludedSource(n) == ContainsOneOf[exclude_patterns][n]

\* the source variables the exclusion list keeps
NonExcludedSources ==
  { n \in DOMAIN name_shape_map : ~IsExcludedSource(n) }

\* the name contains a source pattern of the rule table
HasSourcePattern ==
  [ v2 \in BOOLEAN |->
      [ n \in VarNames |->
          \E k \in 1..Len(NameReplacements(v2)) :
            Contains(n, NameReplacements(v2)[k][1]) ] ]

\* the projection a name belongs to
ShapeRuleOf ==
  [ n \in AllNames |->
      IF Contains(n, "attention/output/dense/kernel") THEN "output_kernel"
      ELSE IF Contains(n, "attention/output/dense/bias") THEN "output_bias"
      ELSE IF \/ Contains(n, "attention/self/query")
              \/ Contains(n, "attention/self/key")
              \/ Contains(n, "attention/self/value")
           THEN IF Contains(n, "kernel") THEN "qkv_kernel"
                ELSE IF Contains(n, "bias") THEN "qkv_bias"
                ELSE "none"
      ELSE "none" ]

\* the dimension the head count has to divide, 0 when nothing is split
SplitDim(n, shape) ==
  CASE ShapeRuleOf[n] = "output_kernel" -> shape[1]
    [] ShapeRuleOf[n] = "qkv_kernel" -> shape[2]
    [] ShapeRuleOf[n] = "qkv_bias" -> shape[1]
    [] OTHER -> 0

\* position of a name in the enumeration order
Pos(n) == CHOOSE i \in 1..Len(order) : order[i] = n

\* names under the v1 table, as Python's str.replace produces them
ExpectedV1 ==
  [ n \in VarNames |->
      CASE n = "bert/embeddings/word_embeddings" ->
             "bert_model/word_embeddings/embeddings"
        [] n = "bert/encoder/layer_0/attention/self/query/kernel" ->
             "bert_model/encoder/layer_0/self_attention/query/kernel"
        [] n = "bert/encoder/layer_0/attention/self/query/bias" ->
             "bert_model/encoder/layer_0/self_attention/query/bias"
        [] n = "bert/encoder/layer_0/attention/self/value/kernel/adam_m" ->
             "bert_model/encoder/layer_0/self_attention/value/kernel/adam_m"
        [] n = "bert/encoder/layer_0/attention/output/dense/kernel" ->
             "bert_model/encoder/layer_0/self_attention_output/kernel"
        [] n = "bert/encoder/layer_0/attention/output/dense/bias" ->
             "bert_model/encoder/layer_0/self_attention_output/bias"
        [] n = "bert/pooler/dense/kernel" ->
             "bert_model/pooler_transform/kernel"
        [] n = "bert/bert/pooler/dense/kernel" ->
             "bert_model/bert_model/pooler_transform/kernel"
        [] n = "pooler_transform/kernel" -> "pooler_transform/kernel"
        [] n = "bert_model/pooler_transform/kernel" ->
             "bert_model_model/pooler_transform/kernel" ]

\* names under the v2 table, as Python's str.replace produces them
ExpectedV2 ==
  [ n \in VarNames |->
      CASE n = "bert/embeddings/word_embeddings" ->
             "word_embeddings/embeddings"
        [] n = "bert/encoder/layer_0/attention/self/query/kernel" ->
             "transformer/layer_0/self_attention/query/kernel"
        [] n = "bert/encoder/layer_0/attention/self/query/bias" ->
             "transformer/layer_0/self_attention/query/bias"
        [] n = "bert/encoder/layer_0/attention/self/value/kernel/adam_m" ->
             "transformer/layer_0/self_attention/value/kernel/adam_m"
        [] n = "bert/encoder/layer_0/attention/output/dense/kernel" ->
             "transformer/layer_0/self_attention_output/kernel"
        [] n = "bert/encoder/layer_0/attention/output/dense/bias" ->
             "transformer/layer_0/self_attention_output/bias"
        [] n = "bert/pooler/dense/kernel" -> "pooler_transform/kernel"
        [] n = "bert/bert/pooler/dense/kernel" -> "pooler_transform/kernel"
        [] n = "pooler_transform/kernel" -> "pooler_transform/kernel"
        [] n = "bert_model/pooler_transform/kernel" ->
             "bert_model/pooler_transform/kernel" ]

ExpectedNewName(n) ==
  IF FLAGS.use_v2_names THEN ExpectedV2[n] ELSE ExpectedV1[n]

(***************************************************************************)
(* C1                                                                      *)
(***************************************************************************)
\* C1 as stated: for every entry old -> new of conversion_map, old is not a
\* key of new_variable_map and new is a key of new_variable_map.
C1_AuditConsistency_AsStated ==
  \A old \in DOMAIN conversion_map :
    /\ old \notin DOMAIN new_variable_map
    /\ conversion_map[old] \in DOMAIN new_variable_map

\* C1 amended: for every entry old -> new of conversion_map, new is a key of
\* new_variable_map, and old is a key of new_variable_map only when another
\* source variable was stored under the name old.
C1_AuditConsistency ==
  \A old \in DOMAIN conversion_map :
    /\ conversion_map[old] \in DOMAIN new_variable_map
    /\ old \in DOMAIN new_variable_map =>
         \E p \in puts : p[1] = old /\ p[2] # old

\* a finished run whose audit map has a key that is also a new name
C1_Witness ==
  /\ pc = "done"
  /\ \E old \in DOMAIN conversion_map : old \in DOMAIN new_variable_map

(***************************************************************************)
(* C2                                                                      *)
(***************************************************************************)
\* C2 as stated: whenever _get_new_shape returns a shape for a head count
\* > 0, the product of the returned dimensions equals the product of the
\* input dimensions.
C2_ShapeInvariant_AsStated ==
  \A c \in shape_calls :
    (c.num_heads > 0 /\ c.result.kind = "value") =>
      Prod(c.result.val) = Prod(c.shape)

\* C2 amended: whenever _get_new_shape returns a shape for a head count > 0,
\* the product of the returned dimensions equals the product of the input
\* dimensions exactly when the head count divides the dimension that is
\* split (nothing is split for the attention-output bias).
C2_ShapeInvariant ==
  \A c \in shape_calls :
    (c.num_heads > 0 /\ c.result.kind = "value") =>
      (Prod(c.result.val) = Prod(c.shape)
         <=> SplitDim(c.name, c.shape) % c.num_heads = 0)

\* _get_new_shape returned a new shape with the same number of elements
C2_Witness ==
  \E c \in shape_calls :
    /\ c.num_heads > 0
    /\ c.result.kind = "value"
    /\ c.result.val # c.shape
    /\ Prod(c.result.val) = Prod(c.shape)

(***************************************************************************)
(* C3                                                                      *)
(***************************************************************************)
\* C3: a source variable whose name contains a pattern of a non-empty
\* exclusion list is never read, never stored and never a key of
\* conversion_map; with an absent or empty list every enumerated variable is
\* read.
C3_ExclusionCompleteness ==
  /\ \A n \in DOMAIN name_shape_map :
       IsExcludedSource(n) =>
         /\ n \notin reads
         /\ \A p \in puts : p[2] # n
         /\ n \notin DOMAIN conversion_map
  /\ ~Truthy(exclude_patterns) =>
       \A k \in 1..Len(order) : order[k] \in reads

\* a finished run that skipped a variable for the second pattern of its list
\* and converted another variable
C3_Witness ==
  /\ pc = "done"
  /\ Truthy(exclude_patterns)
  /\ \E k \in 1..Len(order) :
       /\ IsExcludedSource(order[k])
       /\ ~Contains(order[k], exclude_patterns.val[1])
  /\ reads # {}

(***************************************************************************)
(* C4                                                                      *)
(***************************************************************************)
\* C4: the outcome of a run is a function of the checkpoint and the flags,
\* not of the enumeration order: whether it finishes, and when it does the
\* audit map, the key set of new_variable_map and the tensor under every new
\* name that exactly one non-excluded source rewrites to.
C4_Determinism ==
  /\ pc = "done" =>
       /\ \A n \in NonExcludedSources : Tensor(n).kind = "value"
       /\ DOMAIN conversion_map =
            { n \in NonExcludedSources : NewName(n) # n }
       /\ \A n \in DOMAIN conversion_map : conversion_map[n] = NewName(n)
       /\ DOMAIN new_variable_map =
            { NewName(n) : n \in NonExcludedSources }
       /\ \A n \in NonExcludedSources :
            (\A m \in NonExcludedSources : NewName(m) = NewName(n) => m = n)
              => new_variable_map[NewName(n)] = Tensor(n).val
       /\ dest = PyVal(new_variable_map)
  /\ pc = "raised" =>
       /\ \/ NonExcludedSources = {}
          \/ \E n \in NonExcludedSources : Tensor(n).kind = "raise"
       /\ dest = PyNone

\* a finished run in which two sources were stored under one new name
C4_Witness ==
  /\ pc = "done"
  /\ \E p, q \in puts : p[1] = q[1] /\ p[2] # q[2]
  /\ \E p \in puts : \A q \in puts : q[1] = p[1] => q = p

(***************************************************************************)
(* C5                                                                      *)
(***************************************************************************)
\* C5: every variable is stored under the name the rule table gives when its
\* rules are applied once each in table order, replacing all occurrences; a
\* name with no source pattern keeps its name; under v1
\* bert/embeddings/word_embeddings becomes
\* bert_model/word_embeddings/embeddings and under v2
\* bert/encoder/layer_0/attention/self/query/kernel becomes
\* transformer/layer_0/self_attention/query/kernel.
C5_NameRewriter ==
  \A p \in puts :
    /\ p[1] = ExpectedNewName(p[2])
    /\ ~HasSourcePattern[FLAGS.use_v2_names][p[2]] => p[1] = p[2]
    /\ (~FLAGS.use_v2_names /\ p[2] = "bert/embeddings/word_embeddings")
         => p[1] = "bert_model/word_embeddings/embeddings"
    /\ (FLAGS.use_v2_names
          /\ p[2] = "bert/encoder/layer_0/attention/self/query/kernel")
         => p[1] = "transformer/layer_0/self_attention/query/kernel"

\* a v1 run stored the word embeddings and a name without any pattern
C5_Witness ==
  /\ ~FLAGS.use_v2_names
  /\ << "bert_model/word_embeddings/embeddings",
        "bert/embeddings/word_embeddings" >> \in puts
  /\ << "pooler_transform/kernel", "pooler_transform/kernel" >> \in puts

(***************************************************************************)
(* C6                                                                      *)
(***************************************************************************)
\* C6: with a head count h > 0 a stored tensor has the shape the rules give
\* for its original name, whatever the rule table: (h, r/h, c) for an
\* attention-output kernel, (r, h, c/h) for a query/key/value kernel,
\* (h, d/h) for a query/key/value bias, its own shape otherwise;
\* (768, 768) with h = 12 gives (768, 12, 64) and (768) gives (12, 64).
C6_ShapeRules ==
  \A k \in DOMAIN new_variable_map :
    LET t == new_variable_map[k]
        sh == name_shape_map[t.src]
        h == FLAGS.num_heads
    IN h > 0 =>
         /\ CASE ShapeRuleOf[t.src] = "output_kernel" ->
                   /\ sh[1] % h = 0
                   /\ t.shape = << h, sh[1] \div h, sh[2] >>
              [] ShapeRuleOf[t.src] = "qkv_kernel" ->
                   /\ sh[2] % h = 0
                   /\ t.shape = << sh[1], h, sh[2] \div h >>
              [] ShapeRuleOf[t.src] = "qkv_bias" ->
                   /\ sh[1] % h = 0
                   /\ t.shape = << h, sh[1] \div h >>
              [] OTHER -> t.shape = sh
         /\ (h = 12 /\ sh = << 768, 768 >>
               /\ t.src = "bert/encoder/layer_0/attention/self/query/kernel")
              => t.shape = << 768, 12, 64 >>
         /\ (h = 12 /\ sh = << 768 >>
               /\ t.src = "bert/encoder/layer_0/attention/self/query/bias")
              => t.shape = << 12, 64 >>

\* a v2 run with 12 heads stored the reshaped query kernel
C6_Witness ==
  /\ FLAGS.use_v2_names
  /\ FLAGS.num_heads = 12
  /\ "transformer/layer_0/self_attention/query/kernel"
       \in DOMAIN new_variable_map
  /\ new_variable_map["transformer/layer_0/self_attention/query/kernel"] =
       [ src |-> "bert/encoder/layer_0/attention/self/query/kernel",
         shape |-> << 768, 12, 64 >> ]

(***************************************************************************)
(* C7                                                                      *)
(***************************************************************************)
\* C7: with a head count <= 0 _get_new_shape is never called, np.reshape is
\* never called, no division by the head count is made, every stored tensor
\* has its source shape, and it is stored under its rewritten name.
C7_ReshapeDisabled ==
  FLAGS.num_heads <= 0 =>
    /\ shape_calls = {}
    /\ reshape_calls = {}
    /\ exc \notin { "ZeroDivisionError", "IndexError" }
    /\ \A k \in DOMAIN new_variable_map :
         /\ new_variable_map[k].shape =
              name_shape_map[new_variable_map[k].src]
         /\ \E p \in puts : p[1] = k /\ p[1] = ExpectedNewName(p[2])

\* a v2 run with the default head count stored the query kernel unreshaped
C7_Witness ==
  /\ pc = "done"
  /\ FLAGS.use_v2_names
  /\ FLAGS.num_heads = -1
  /\ "transformer/layer_0/self_attention/query/kernel"
       \in DOMAIN new_variable_map
  /\ new_variable_map["transformer/layer_0/self_attention/query/kernel"] =
       [ src |-> "bert/encoder/layer_0/attention/self/query/kernel",
         shape |-> << 768, 768 >> ]

(***************************************************************************)
(* C8                                                                      *)
(***************************************************************************)
\* the head count does not divide the dimension the variable's rule splits
Indivisible(n) ==
  /\ FLAGS.num_heads > 0
  /\ ShapeRuleOf[n] \in { "output_kernel", "qkv_kernel", "qkv_bias" }
  /\ SplitDim(n, name_shape_map[n]) % FLAGS.num_heads # 0

\* C8: a non-excluded variable whose split dimension the head count does not
\* divide ends the run with ValueError at that variable and is never stored;
\* a checkpoint holding such a variable is never written; the destination is
\* written at most once, after every non-excluded variable was stored and no
\* exception was raised.
C8_ShapeMismatchFatal ==
  /\ \A n \in reads :
       Indivisible(n) =>
         /\ pc = "raised"
         /\ exc = "ValueError"
         /\ order[Len(order)] = n
         /\ \A p \in puts : p[2] # n
  /\ (pc # "main" /\ \E n \in NonExcludedSources : Indivisible(n)) =>
       /\ dest = PyNone
       /\ save_count = 0
       /\ pc # "done"
  /\ save_count <= 1
  /\ (save_count = 1 \/ dest # PyNone) =>
       /\ save_count = 1
       /\ todo = {}
       /\ exc = ""
       /\ \A n \in NonExcludedSources : \E p \in puts : p[2] = n

\* a run that stored one variable and then stopped in np.reshape
C8_Witness ==
  /\ pc = "raised"
  /\ exc = "ValueError"
  /\ puts # {}
  /\ Indivisible(order[Len(order)])

(***************************************************************************)
(* C9                                                                      *)
(***************************************************************************)
\* C9: the reshape step is taken only for a result that differs from the
\* tensor's shape; for a name containing attention/output/dense/bias no shape
\* change is logged and np.reshape is not called.
C9_NoReshapeStepForEqualShape ==
  \A n \in reshape_calls :
    /\ ShapeRuleOf[n] # "output_bias"
    /\ \A c \in shape_calls : c.name = n => c.result.val # c.shape

(***************************************************************************)
(* C10                                                                     *)
(***************************************************************************)
\* C10: the tensor under a new name is that of the source enumerated last
\* among the sources stored under it; every stored source whose name changed
\* has its entry in conversion_map; the summary counts the non-excluded
\* sources less the overwritten entries.
C10_CollisionPolicy ==
  /\ \A k \in DOMAIN new_variable_map :
       /\ << k, new_variable_map[k].src >> \in puts
       /\ \A p \in puts :
            p[1] = k => Pos(p[2]) <= Pos(new_variable_map[k].src)
  /\ \A p \in puts :
       p[1] # p[2] =>
         /\ p[2] \in DOMAIN conversion_map
         /\ conversion_map[p[2]] = p[1]
  /\ pc = "done" =>
       /\ summary.val.count = Cardinality(DOMAIN dest.val)
       /\ summary.val.count =
            Cardinality(NonExcludedSources)
              - (Cardinality(puts) - Cardinality(DOMAIN new_variable_map))

\* a finished run in which two renamed sources were stored under one name
C10_Witness ==
  /\ pc = "done"
  /\ \E p, q \in puts :
       /\ p[1] = q[1]
       /\ p[2] # q[2]
       /\ p[1] # p[2]
       /\ q[1] # q[2]
  /\ summary.val.count < Cardinality(NonExcludedSources)

=============================================================================
